---- MODULE Spec2Model ----
(***************************************************************************)
(* A model of create-tsrouter-app (src/src/index.ts): the scaffold         *)
(* orchestrator createApp with its awaited and floating file operations,   *)
(* the add-on composer copyFilesRecursively, and the manifest merger       *)
(* createPackageJSON.                                                      *)
(*                                                                         *)
(* A path is a sequence of segments and a segment is the sequence of its   *)
(* dot-separated parts: "./src/App.tsx.ejs" is <<<<"src">>,                *)
(* <<"App","tsx","ejs">>>>, ".gitignore" is <<<<"", "gitignore">>>>.       *)
(* The content of a file is a sequence of chunks, one per write that       *)
(* contributed to it.                                                      *)
(***************************************************************************)
EXTENDS Integers, Sequences, FiniteSets, TLC

VARIABLES
    pc,            \* what the main async flow is awaiting (or a terminal state)
    cli,           \* the options commander hands to program.action
    options,       \* the Options record createApp works on
    targetExists,  \* existsSync(targetDir) when the run starts
    registry,      \* 1 once getAllAddOns() has resolved, else 0
    ip,            \* index in BasePlan(options) of the awaited operation
    floating,      \* copyFiles() promises nobody awaits: name -> files left
    cur,           \* the add-on loop: position, files left of the asset walk
    dirs,          \* directories created under targetDir
    files,         \* files under targetDir: path -> content
    writes,        \* history: path -> the writes made to it, in order
    progress,      \* history: per selected add-on, how far it got
    procs,         \* history: external processes that ended, in order
    warned,        \* log.warn was called with the collected warnings
    lastOp,        \* history: the last add-on asset operation
    mpc,           \* createPackageJSON: position
    mopts,         \* createPackageJSON: its options argument
    packageJSON,   \* createPackageJSON: the object being merged
    additions,     \* createPackageJSON: how many of its addOns are not merged yet
    manifestFile,  \* createPackageJSON: what writeFile received
    contributed,   \* history: the last value each key was given, per section
    preSort        \* history: key order of the sections just before sortObject

vars == <<pc, cli, options, targetExists, registry, ip, floating, cur, dirs,
          files, writes, progress, procs, warned, lastOp,
          mpc, mopts, packageJSON, additions, manifestFile, contributed, preSort>>

appVars == <<pc, cli, options, targetExists, registry, ip, floating, cur, dirs,
             files, writes, progress, procs, warned, lastOp>>

mergeVars == <<mpc, mopts, packageJSON, additions, manifestFile, contributed, preSort>>

(***************************************************************************)
(* Bounds                                                                  *)
(***************************************************************************)
MaxAddOns == 2

MaxAdditions == 2

MaxFragKeys == 1

(***************************************************************************)
(* Constants of the program                                                *)
(***************************************************************************)
CODE_ROUTER == "code-router"

FILE_ROUTER == "file-router"

Templates == {"typescript", "javascript", "file-router"}

Phases == <<"setup", "add-on">>

(***************************************************************************)
(* Paths and file-name qualifiers                                          *)
(***************************************************************************)
Last(s) == s[Len(s)]

RemoveAt(s, j) == SubSeq(s, 1, j - 1) \o SubSeq(s, j + 1, Len(s))

\* source.endsWith('.' + q)
endsWith(path, q) ==
    /\ Len(path) > 0
    /\ Len(Last(path)) >= 2
    /\ Last(Last(path)) = q

\* Position of the first part q of a segment that follows a dot, 0 if none.
QualAt(seg, q) ==
    LET hits == {j \in 2..Len(seg) : seg[j] = q}
    IN  IF hits = {} THEN 0 ELSE CHOOSE j \in hits : \A k \in hits : j <= k

\* path.replace('.' + q, ''): String.replace drops the first occurrence only.
replace(path, q) ==
    LET hits == {i \in 1..Len(path) : QualAt(path[i], q) > 0}
    IN  IF hits = {} THEN path
        ELSE LET i == CHOOSE i \in hits : \A k \in hits : i <= k
             IN  [path EXCEPT ![i] = RemoveAt(path[i], QualAt(path[i], q))]

dirname(path) == SubSeq(path, 1, Len(path) - 1)

\* mkdir(dir, {recursive: true}): the directory and every ancestor of it.
mkdir(ds, dir) == ds \cup {SubSeq(dir, 1, n) : n \in 0..Len(dir)}

(***************************************************************************)
(* The file system                                                         *)
(***************************************************************************)
Put(f, path, v) == [p \in DOMAIN f \cup {path} |-> IF p = path THEN v ELSE f[p]]

\* Faulty variant: an existing target is left as it is (flag 'wx', error dropped).
writeFileExclusive(fsys, path, chunk) ==
    IF path \in DOMAIN fsys THEN fsys ELSE Put(fsys, path, <<chunk>>)

\* fs.writeFile / fs.copyFile: the target is created or truncated.
writeFile(fsys, path, chunk) == Put(fsys, path, <<chunk>>)

\* Faulty variant: writeFile in the place of appendFile.
appendFileTruncating(fsys, path, chunk) == Put(fsys, path, <<chunk>>)

\* fs.appendFile: flag 'a', the target is created when it does not exist.
appendFile(fsys, path, chunk) ==
    Put(fsys, path, (IF path \in DOMAIN fsys THEN fsys[path] ELSE <<>>) \o <<chunk>>)

Record(w, path, entry) ==
    Put(w, path, (IF path \in DOMAIN w THEN w[path] ELSE <<>>) \o <<entry>>)

Chunk(owner, kind) == [owner |-> owner, kind |-> kind]

\* createTemplateFile: the target name, and whether prettier formats it.
TemplateTarget(file, targetFileName) ==
    IF targetFileName = <<>> THEN replace(file, "ejs") ELSE targetFileName

TemplateKind(target) ==
    IF endsWith(target, "ts") \/ endsWith(target, "tsx") THEN "renderFormatted" ELSE "render"

(***************************************************************************)
(* The base pass of createApp: the operations it issues, in order          *)
(***************************************************************************)
Item(op, file, target) == [op |-> op, file |-> file, target |-> target, files |-> <<>>]

\* copyFiles(...) called without await: the copies run beside the main flow.
FloatingCopyFiles(name, fs) == [op |-> "spawn", file |-> <<<<name>>>>, target |-> <<>>, files |-> fs]

\* createCopyFiles: one awaited copyFile per file, '.tw' dropped from the name.
copyFiles(fs) == [i \in 1..Len(fs) |-> Item("copyFile", fs[i], replace(fs[i], "tw"))]

templateFile(file, targetFileName) ==
    Item("templateFile", file, TemplateTarget(file, targetFileName))

isAddOnEnabled(opts, id) ==
    \E i \in 1..Len(opts.chosenAddOns) : opts.chosenAddOns[i].id = id

PublicFiles ==
    << <<<<"public">>, <<"robots", "txt">>>>,
       <<<<"public">>, <<"favicon", "ico">>>>,
       <<<<"public">>, <<"manifest", "json">>>>,
       <<<<"public">>, <<"logo192", "png">>>>,
       <<<<"public">>, <<"logo512", "png">>>> >>

LogoFiles == << <<<<"src">>, <<"logo", "svg">>>> >>

BasePlan(opts) ==
       << Item("mkdir", <<>>, <<>>),
          Item("mkdir", <<>>, <<<<"", "vscode">>>>),
          Item("copyFile", <<<<"", "vscode">>, <<"settings", "json">>>>,
                           <<<<"", "vscode">>, <<"settings", "json">>>>),
          Item("mkdir", <<>>, <<<<"public">>>>),
          FloatingCopyFiles("public", PublicFiles),
          Item("mkdir", <<>>, <<<<"src">>>>) >>
    \o (IF opts.mode = FILE_ROUTER
        THEN << Item("mkdir", <<>>, <<<<"src">>, <<"routes">>>>),
                Item("mkdir", <<>>, <<<<"src">>, <<"components">>>>) >>
        ELSE <<>>)
    \o (IF ~opts.tailwind
        THEN copyFiles(<< <<<<"src">>, <<"App", "css">>>> >>)
        ELSE <<>>)
    \o << templateFile(<<<<"vite", "config", "js", "ejs">>>>, <<>>),
          templateFile(<<<<"src">>, <<"styles", "css", "ejs">>>>, <<>>),
          FloatingCopyFiles("logo", LogoFiles) >>
    \o (IF opts.mode = FILE_ROUTER
        THEN << templateFile(<<<<"src">>, <<"components">>, <<"Header", "tsx", "ejs">>>>,
                             <<<<"src">>, <<"components">>, <<"Header", "tsx">>>>),
                templateFile(<<<<"src">>, <<"routes">>, <<"__root", "tsx", "ejs">>>>,
                             <<<<"src">>, <<"routes">>, <<"__root", "tsx">>>>),
                templateFile(<<<<"src">>, <<"App", "tsx", "ejs">>>>,
                             <<<<"src">>, <<"routes">>, <<"index", "tsx">>>>) >>
        ELSE << templateFile(<<<<"src">>, <<"App", "tsx", "ejs">>>>,
                             IF opts.typescript THEN <<>>
                             ELSE <<<<"src">>, <<"App", "jsx">>>>),
                templateFile(<<<<"src">>, <<"App", "test", "tsx", "ejs">>>>,
                             IF opts.typescript THEN <<>>
                             ELSE <<<<"src">>, <<"App", "test", "jsx">>>>) >>)
    \o (IF ~isAddOnEnabled(opts, "start")
        THEN << templateFile(<<<<"src">>, <<"main", "tsx", "ejs">>>>,
                             IF opts.typescript THEN <<>>
                             ELSE <<<<"src">>, <<"main", "jsx">>>>),
                templateFile(<<<<"src">>, <<"reportWebVitals", "ts", "ejs">>>>,
                             IF opts.typescript THEN <<>>
                             ELSE <<<<"src">>, <<"reportWebVitals", "js">>>>),
                templateFile(<<<<"index", "html", "ejs">>>>, <<>>) >>
        ELSE <<>>)
    \o (IF opts.typescript
        THEN << templateFile(<<<<"tsconfig", "json", "ejs">>>>, <<<<"tsconfig", "json">>>>) >>
        ELSE <<>>)

(***************************************************************************)
(* Add-ons                                                                 *)
(***************************************************************************)
\* Directory names under templates/add-ons, in readdirSync order.
AddOnIds == <<"form", "shadcn", "start">>

\* info.json of each catalog entry: which entries declare shadcn components and
\* a warning is fixed per entry; the phase and the command are left open.
ShadcnComponentsOf(id) == IF id = "form" THEN {"button"} ELSE {}

WarningOf(id) == id = "start"

Descriptors ==
    { [id |-> AddOnIds[n], phase |-> ph, command |-> c, warning |-> WarningOf(AddOnIds[n]),
       shadcnComponents |-> ShadcnComponentsOf(AddOnIds[n])] :
        n \in 1..Len(AddOnIds), ph \in {"setup", "add-on"}, c \in BOOLEAN }

IdRank(id) == CHOOSE n \in 1..Len(AddOnIds) : AddOnIds[n] = id

\* What pickAddOns can return: a sub-sequence of the catalog, in catalog order.
Selections ==
    { s \in UNION { [1..n -> Descriptors] : n \in 0..MaxAddOns } :
        \A i \in 1..Len(s) : \A j \in 1..Len(s) :
            i < j => IdRank(s[i].id) < IdRank(s[j].id) }

\* An entry of an assets directory: a file, or a directory with its entries.
File(name) == [name |-> name, isDirectory |-> FALSE, entries |-> <<>>]

Dir(name, entries) == [name |-> name, isDirectory |-> TRUE, entries |-> entries]

NoAssets == [name |-> <<"assets">>, isDirectory |-> FALSE, entries |-> <<>>]

\* The asset trees an add-on directory may hold (existsSync false: NoAssets).
AssetTrees ==
    { NoAssets,
      Dir(<<"assets">>, << File(<<"notes", "txt", "append">>) >>),
      Dir(<<"assets">>, << File(<<"README", "md">>), File(<<"notes", "txt">>) >>),
      Dir(<<"assets">>, << Dir(<<"src">>, << File(<<"demo", "tsx", "ejs">>) >>) >>) }

\* copyFilesRecursively: the files under an entry in the order they are reached,
\* each with its path relative to the assets root. Trees are at most 3 deep.
Walk0(e, prefix) == IF e.isDirectory THEN <<>> ELSE << prefix \o <<e.name>> >>

Concat(seqs, n) ==
    LET F[i \in 0..n] == IF i = 0 THEN <<>> ELSE F[i - 1] \o seqs[i]
    IN  F[n]

Walk1(e, prefix) ==
    IF e.isDirectory
    THEN Concat([i \in 1..Len(e.entries) |-> Walk0(e.entries[i], prefix \o <<e.name>>)],
                Len(e.entries))
    ELSE << prefix \o <<e.name>> >>

Walk(root) ==
    IF root.isDirectory
    THEN Concat([i \in 1..Len(root.entries) |-> Walk1(root.entries[i], <<>>)],
                Len(root.entries))
    ELSE <<>>

\* for (const phase of ['setup', 'add-on']) for (const addOn of chosen.filter(...))
Filter(chosen, ph) ==
    LET F[i \in 0..Len(chosen)] ==
            IF i = 0 THEN <<>>
            ELSE IF chosen[i].phase = ph THEN F[i - 1] \o <<i>> ELSE F[i - 1]
    IN  F[Len(chosen)]

\* Faulty variant: one loop over the selection, the phase not looked at.
ProcessingOrderUnphased(chosen) == [i \in 1..Len(chosen) |-> i]

ProcessingOrder(chosen) == Filter(chosen, Phases[1]) \o Filter(chosen, Phases[2])

(***************************************************************************)
(* The run: program.action and createApp                                   *)
(***************************************************************************)
NoOptions ==
    [typescript |-> FALSE, tailwind |-> FALSE, mode |-> CODE_ROUTER,
     addOns |-> FALSE, chosenAddOns |-> <<>>]

NoOp == [kind |-> "none", target |-> <<>>, existed |-> FALSE, owner |-> ""]

\* States in which the main flow has an operation in flight that it awaits.
Awaiting ==
    {"getAllAddOns", "pickAddOns", "base", "packageJSON", "addOnFile",
     "addOnCommand", "shadcn", "gitignore", "readme", "install"}

AppInit ==
    /\ pc = "start"
    /\ cli \in [template : Templates, tailwind : BOOLEAN, addOns : BOOLEAN]
    /\ options = NoOptions
    /\ targetExists \in BOOLEAN
    /\ registry = 0
    /\ ip = 0
    /\ floating = [t \in {"public", "logo"} |-> <<>>]
    /\ cur = [k |-> 0, files |-> <<>>]
    /\ dirs = {}
    /\ files = <<>>
    /\ writes = <<>>
    /\ progress = <<>>
    /\ procs = <<>>
    /\ warned = FALSE
    /\ lastOp = NoOp

MergeIdle ==
    /\ mpc = "idle"
    /\ mopts = [typescript |-> FALSE, tailwind |-> FALSE, mode |-> CODE_ROUTER]
    /\ packageJSON = <<>>
    /\ additions = 0
    /\ manifestFile = <<>>
    /\ contributed = <<>>
    /\ preSort = <<>>

\* Faulty variant: the template is not checked when add-ons are requested.
ProgramActionUnchecked ==
    /\ pc = "start"
    /\ options' = [typescript |-> cli.template \in {"typescript", "file-router"},
                   tailwind |-> cli.tailwind \/ cli.addOns,
                   mode |-> IF cli.template = "file-router" THEN FILE_ROUTER ELSE CODE_ROUTER,
                   addOns |-> cli.addOns,
                   chosenAddOns |-> <<>>]
    /\ pc' = "createApp"
    /\ UNCHANGED <<cli, targetExists, registry, ip, floating, cur, dirs, files,
                   writes, progress, procs, warned, lastOp>>
    /\ UNCHANGED mergeVars

\* The action callback of commander, up to its call of createApp.
ProgramAction ==
    /\ pc = "start"
    /\ IF cli.addOns /\ cli.template # "file-router"
       THEN /\ pc' = "configError"
            /\ UNCHANGED options
       ELSE /\ options' = [typescript |-> cli.template \in {"typescript", "file-router"},
                           tailwind |-> cli.tailwind \/ cli.addOns,
                           mode |-> IF cli.template = "file-router"
                                    THEN FILE_ROUTER ELSE CODE_ROUTER,
                           addOns |-> cli.addOns,
                           chosenAddOns |-> <<>>]
            /\ pc' = "createApp"
    /\ UNCHANGED <<cli, targetExists, registry, ip, floating, cur, dirs, files,
                   writes, progress, procs, warned, lastOp>>
    /\ UNCHANGED mergeVars

\* Faulty variant: existsSync(targetDir) is not checked.
CheckTargetSkipped ==
    /\ pc = "createApp"
    /\ IF options.addOns
       THEN pc' = "getAllAddOns" /\ ip' = ip
       ELSE pc' = "base" /\ ip' = 1
    /\ UNCHANGED <<cli, options, targetExists, registry, floating, cur, dirs, files,
                   writes, progress, procs, warned, lastOp>>
    /\ UNCHANGED mergeVars

\* createApp up to its first await: the target check, then getAllAddOns() or
\* the first mkdir is issued.
CheckTarget ==
    /\ pc = "createApp"
    /\ IF targetExists
       THEN pc' = "aborted" /\ ip' = ip
       ELSE IF options.addOns
            THEN pc' = "getAllAddOns" /\ ip' = ip
            ELSE pc' = "base" /\ ip' = 1
    /\ UNCHANGED <<cli, options, targetExists, registry, floating, cur, dirs, files,
                   writes, progress, procs, warned, lastOp>>
    /\ UNCHANGED mergeVars

\* getAllAddOns() settles: the catalog is loaded, or a descriptor did not parse.
GetAllAddOns ==
    /\ pc = "getAllAddOns"
    /\ \E ok \in BOOLEAN :
        IF ok THEN pc' = "pickAddOns" /\ registry' = registry + 1
        ELSE pc' = "failed" /\ registry' = registry
    /\ UNCHANGED <<cli, options, targetExists, ip, floating, cur, dirs, files,
                   writes, progress, procs, warned, lastOp>>
    /\ UNCHANGED mergeVars

\* pickAddOns() settles with the selected descriptors; mkdir(targetDir) is issued.
PickAddOns ==
    /\ pc = "pickAddOns"
    /\ \E s \in Selections :
        /\ options' = [options EXCEPT !.chosenAddOns = s]
        /\ progress' = [i \in 1..Len(s) |-> [st |-> "none", n |-> 0, total |-> 0]]
    /\ pc' = "base"
    /\ ip' = 1
    /\ UNCHANGED <<cli, targetExists, registry, floating, cur, dirs, files,
                   writes, procs, warned, lastOp>>
    /\ UNCHANGED mergeVars

\* The awaited operation of the base pass settles and the flow runs on to the
\* next await; a copyFiles() call on the way is started and left floating.
BaseStep ==
    /\ pc = "base"
    /\ LET plan == BasePlan(options)
           item == plan[ip]
           n    == ip + 1
           spawn == n <= Len(plan) /\ plan[n].op = "spawn"
           next == IF spawn THEN n + 1 ELSE n
       IN  /\ IF item.op = "mkdir"
              THEN /\ dirs' = mkdir(dirs, item.target)
                   /\ UNCHANGED <<files, writes>>
              ELSE IF item.op = "copyFile"
              THEN /\ files' = writeFile(files, item.target, Chunk("base", "copy"))
                   /\ writes' = Record(writes, item.target, Chunk("base", "copy"))
                   /\ UNCHANGED dirs
              ELSE /\ dirs' = mkdir(dirs, dirname(item.target))
                   /\ files' = writeFile(files, item.target,
                                         Chunk("base", TemplateKind(item.target)))
                   /\ writes' = Record(writes, item.target,
                                       Chunk("base", TemplateKind(item.target)))
           /\ floating' = IF spawn
                          THEN [floating EXCEPT ![plan[n].file[1][1]] = plan[n].files]
                          ELSE floating
           /\ ip' = next
           /\ pc' = IF next > Len(plan) THEN "packageJSON" ELSE "base"
    /\ UNCHANGED <<cli, options, targetExists, registry, cur, progress, procs,
                   warned, lastOp>>
    /\ UNCHANGED mergeVars

\* copyFiles left floating: its copy in flight settles and it issues the next.
FloatingCopy(t) ==
    /\ floating[t] # <<>>
    /\ LET target == replace(Head(floating[t]), "tw")
       IN  /\ files' = writeFile(files, target, Chunk("base", "copy"))
           /\ writes' = Record(writes, target, Chunk("base", "copy"))
    /\ floating' = [floating EXCEPT ![t] = Tail(floating[t])]
    /\ UNCHANGED <<pc, cli, options, targetExists, registry, ip, cur, dirs,
                   progress, procs, warned, lastOp>>
    /\ UNCHANGED mergeVars

PackageJsonPath == <<<<"package", "json">>>>

\* createPackageJSON settles: package.json is written; the add-on loop starts.
WritePackageJSON ==
    /\ pc = "packageJSON"
    /\ files' = writeFile(files, PackageJsonPath, Chunk("manifest", "manifest"))
    /\ writes' = Record(writes, PackageJsonPath, Chunk("manifest", "manifest"))
    /\ pc' = "addOn"
    /\ cur' = [k |-> 1, files |-> <<>>]
    /\ UNCHANGED <<cli, options, targetExists, registry, ip, floating, dirs,
                   progress, procs, warned, lastOp>>
    /\ UNCHANGED mergeVars

\* After the add-on loop: is `npx shadcn add` run?
ShadcnComponents(opts) ==
    UNION {opts.chosenAddOns[i].shadcnComponents : i \in 1..Len(opts.chosenAddOns)}

AfterAddOns(opts) ==
    IF isAddOnEnabled(opts, "shadcn") /\ ShadcnComponents(opts) # {}
    THEN "shadcn" ELSE "gitignore"

Order == ProcessingOrder(options.chosenAddOns)

\* The head of one iteration of the add-on loop: s.start, existsSync(addOnDir),
\* and the first operation of the iteration is issued. Past the last add-on the
\* flow runs on to the shadcn install or to the copy of .gitignore.
AddOnStart ==
    /\ pc = "addOn"
    /\ IF cur.k > Len(Order)
       THEN /\ pc' = AfterAddOns(options)
            /\ UNCHANGED <<cur, progress>>
       ELSE \E tree \in AssetTrees :
            LET i  == Order[cur.k]
                fs == Walk(tree)
            IN  IF fs # <<>>
                THEN /\ pc' = "addOnFile"
                     /\ cur' = [cur EXCEPT !.files = fs]
                     /\ progress' = [progress EXCEPT ![i] =
                                        [st |-> "composing", n |-> 0, total |-> Len(fs)]]
                ELSE IF options.chosenAddOns[i].command
                THEN /\ pc' = "addOnCommand"
                     /\ UNCHANGED cur
                     /\ progress' = [progress EXCEPT ![i] =
                                        [st |-> "command", n |-> 0, total |-> 0]]
                ELSE /\ pc' = "addOn"
                     /\ cur' = [cur EXCEPT !.k = cur.k + 1]
                     /\ progress' = [progress EXCEPT ![i] =
                                        [st |-> "done", n |-> 0, total |-> 0]]
    /\ UNCHANGED <<cli, options, targetExists, registry, ip, floating, dirs, files,
                   writes, procs, warned, lastOp>>
    /\ UNCHANGED mergeVars

\* What the add-on loop awaits once a file of the walk has settled: the next
\* file, then the command if the add-on has one, else the next iteration.
\* Faulty variant: the command is started without awaiting the rest of the walk.
NextAwaitCommandEarly(rest, addOn) ==
    IF addOn.command THEN "addOnCommand"
    ELSE IF rest # <<>> THEN "addOnFile" ELSE "addOn"

NextAwait(rest, addOn) ==
    IF rest # <<>> THEN "addOnFile"
    ELSE IF addOn.command THEN "addOnCommand" ELSE "addOn"

\* copyFilesRecursively on one file of the asset tree: the awaited operation
\* settles; after the last file the command is started, if there is one.
AddOnFile ==
    /\ pc = "addOnFile"
    /\ LET i      == Order[cur.k]
           addOn  == options.chosenAddOns[i]
           source == Head(cur.files)
           rest   == Tail(cur.files)
           kind   == IF endsWith(source, "ejs") THEN "ejs"
                     ELSE IF endsWith(source, "append") THEN "append" ELSE "copy"
           target == IF kind = "ejs" THEN replace(source, "ejs")
                     ELSE IF kind = "append" THEN replace(source, "append") ELSE source
           chunk  == Chunk(addOn.id, IF kind = "ejs" THEN TemplateKind(target) ELSE kind)
           next   == NextAwait(rest, addOn)
       IN  /\ dirs' = mkdir(dirs, IF kind = "ejs" THEN dirname(target) ELSE dirname(source))
           /\ files' = IF kind = "append" THEN appendFile(files, target, chunk)
                       ELSE writeFile(files, target, chunk)
           /\ writes' = Record(writes, target, chunk)
           /\ lastOp' = [kind |-> kind, target |-> target,
                         existed |-> target \in DOMAIN files, owner |-> addOn.id]
           /\ cur' = [cur EXCEPT !.files = rest,
                                 !.k = IF next = "addOn" THEN @ + 1 ELSE @]
           /\ progress' = [progress EXCEPT ![i].n = @ + 1,
                              ![i].st = IF next = "addOnFile" THEN "composing"
                                        ELSE IF next = "addOnCommand" THEN "command"
                                        ELSE "done"]
           /\ pc' = next
    /\ UNCHANGED <<cli, options, targetExists, registry, ip, floating, procs, warned>>
    /\ UNCHANGED mergeVars

\* Faulty variant: a failing command is caught and the loop goes on.
AddOnCommandSwallowed ==
    /\ pc = "addOnCommand"
    /\ LET i == Order[cur.k]
       IN  \E ok \in BOOLEAN :
            /\ procs' = Append(procs, [cmd |-> "command", addOn |-> i, ok |-> ok])
            /\ progress' = [progress EXCEPT ![i].st = "done"]
            /\ cur' = [cur EXCEPT !.k = @ + 1]
            /\ pc' = "addOn"
    /\ UNCHANGED <<cli, options, targetExists, registry, ip, floating, dirs, files,
                   writes, warned, lastOp>>
    /\ UNCHANGED mergeVars

\* execa(addOn.command) settles: s.stop and the next iteration, or it throws.
AddOnCommand ==
    /\ pc = "addOnCommand"
    /\ LET i == Order[cur.k]
       IN  \E ok \in BOOLEAN :
            /\ procs' = Append(procs, [cmd |-> "command", addOn |-> i, ok |-> ok])
            /\ IF ok
               THEN /\ progress' = [progress EXCEPT ![i].st = "done"]
                    /\ cur' = [cur EXCEPT !.k = @ + 1]
                    /\ pc' = "addOn"
               ELSE /\ progress' = [progress EXCEPT ![i].st = "failed"]
                    /\ UNCHANGED cur
                    /\ pc' = "failed"
    /\ UNCHANGED <<cli, options, targetExists, registry, ip, floating, dirs, files,
                   writes, warned, lastOp>>
    /\ UNCHANGED mergeVars

\* execa('npx', ['shadcn@canary', 'add', ...]) settles.
InstallShadcn ==
    /\ pc = "shadcn"
    /\ \E ok \in BOOLEAN :
        /\ procs' = Append(procs, [cmd |-> "shadcn", addOn |-> 0, ok |-> ok])
        /\ pc' = IF ok THEN "gitignore" ELSE "failed"
    /\ UNCHANGED <<cli, options, targetExists, registry, ip, floating, cur, dirs,
                   files, writes, progress, warned, lastOp>>
    /\ UNCHANGED mergeVars

GitignorePath == <<<<"", "gitignore">>>>

\* copyFile(gitignore, .gitignore) settles.
CopyGitignore ==
    /\ pc = "gitignore"
    /\ files' = writeFile(files, GitignorePath, Chunk("post", "copy"))
    /\ writes' = Record(writes, GitignorePath, Chunk("post", "copy"))
    /\ pc' = "readme"
    /\ UNCHANGED <<cli, options, targetExists, registry, ip, floating, cur, dirs,
                   progress, procs, warned, lastOp>>
    /\ UNCHANGED mergeVars

ReadmeItem == templateFile(<<<<"README", "md", "ejs">>>>, <<>>)

\* templateFile(templateDirBase, 'README.md.ejs') settles; the install starts.
WriteReadme ==
    /\ pc = "readme"
    /\ dirs' = mkdir(dirs, dirname(ReadmeItem.target))
    /\ files' = writeFile(files, ReadmeItem.target,
                          Chunk("post", TemplateKind(ReadmeItem.target)))
    /\ writes' = Record(writes, ReadmeItem.target,
                        Chunk("post", TemplateKind(ReadmeItem.target)))
    /\ pc' = "install"
    /\ UNCHANGED <<cli, options, targetExists, registry, ip, floating, cur,
                   progress, procs, warned, lastOp>>
    /\ UNCHANGED mergeVars

Warnings(opts) ==
    {i \in 1..Len(opts.chosenAddOns) : opts.chosenAddOns[i].warning}

\* execa(packageManager, ['install']) settles; warnings, then outro.
InstallDependencies ==
    /\ pc = "install"
    /\ \E ok \in BOOLEAN :
        /\ procs' = Append(procs, [cmd |-> "install", addOn |-> 0, ok |-> ok])
        /\ IF ok
           THEN pc' = "done" /\ warned' = (Warnings(options) # {})
           ELSE pc' = "failed" /\ warned' = warned
    /\ UNCHANGED <<cli, options, targetExists, registry, ip, floating, cur, dirs,
                   files, writes, progress, lastOp>>
    /\ UNCHANGED mergeVars

(***************************************************************************)
(* The manifest merger: createPackageJSON                                  *)
(*                                                                         *)
(* A JavaScript object with string keys is the sequence of its <<key,      *)
(* value>> pairs in property (insertion) order, which is the order         *)
(* Object.keys and JSON.stringify follow. A key is the sequence of its     *)
(* UTF-16 code units ("a" is 97, "b" is 98).                               *)
(***************************************************************************)
Sections == {"dependencies", "devDependencies", "scripts"}

KeysOf(sec) ==
    IF sec = "scripts" THEN {<<98>>} ELSE {<<97, 98>>, <<98>>}

Values == {"^1.0.0", "^2.0.0"}

KeySeq(obj) == [i \in 1..Len(obj) |-> obj[i][1]]

KeySet(obj) == {obj[i][1] : i \in 1..Len(obj)}

Lookup(obj, k) == (CHOOSE i \in 1..Len(obj) : obj[i][1] = k)

Get(obj, k) == obj[Lookup(obj, k)][2]

\* Faulty variant: the operands of the spread swapped, {...b, ...a}.
SpreadFirstWins(a, b) ==
    LET kept == [i \in 1..Len(b) |->
                    IF b[i][1] \in KeySet(a) THEN <<b[i][1], a[Lookup(a, b[i][1])][2]>>
                    ELSE b[i]]
        news == SelectSeq(a, LAMBDA p : p[1] \notin KeySet(b))
    IN  kept \o news

\* {...a, ...b}: the properties of a keep their place and take b's value where b
\* has the key; the keys only b has follow, in b's order.
Spread(a, b) ==
    LET kept == [i \in 1..Len(a) |->
                    IF a[i][1] \in KeySet(b) THEN <<a[i][1], Get(b, a[i][1])>> ELSE a[i]]
        news == SelectSeq(b, LAMBDA p : p[1] \notin KeySet(a))
    IN  kept \o news

\* The default comparison of Array.prototype.sort: by UTF-16 code units.
LexLess(a, b) ==
    \E i \in 1..(Len(a) + 1) :
        /\ \A j \in 1..(i - 1) : j <= Len(b) /\ a[j] = b[j]
        /\ \/ i = Len(a) + 1 /\ i <= Len(b)
           \/ i <= Len(a) /\ i <= Len(b) /\ a[i] < b[i]

Insert(sorted, k) ==
    LET before == SelectSeq(sorted, LAMBDA x : LexLess(x, k))
        after  == SelectSeq(sorted, LAMBDA x : ~LexLess(x, k))
    IN  before \o <<k>> \o after

\* Object.keys(obj).sort()
SortKeys(ks) ==
    LET F[i \in 0..Len(ks)] == IF i = 0 THEN <<>> ELSE Insert(F[i - 1], ks[i])
    IN  F[Len(ks)]

\* Faulty variant: the keys are not sorted.
sortObjectUnsorted(obj) == obj

\* sortObject: a new object filled in the order of the sorted keys.
sortObject(obj) ==
    LET ks == SortKeys(KeySeq(obj))
    IN  [i \in 1..Len(ks) |-> <<ks[i], Get(obj, ks[i])>>]

\* Objects over a key set with at most n properties.
Objects(keys, n) ==
    { o \in UNION { [1..m -> keys \X Values] : m \in 0..n } :
        \A i \in 1..Len(o) : \A j \in 1..Len(o) : i # j => o[i][1] # o[j][1] }

Size(frag) ==
    Len(frag.dependencies) + Len(frag.devDependencies) + Len(frag.scripts)

\* The content of a manifest file: package.json of the base template,
\* package.ts.json, package.tw.json, package.fr.json, an add-on's package.json.
Fragments ==
    { f \in [dependencies : Objects(KeysOf("dependencies"), MaxFragKeys),
             devDependencies : Objects(KeysOf("devDependencies"), MaxFragKeys),
             scripts : Objects(KeysOf("scripts"), MaxFragKeys)] :
        Size(f) <= MaxFragKeys }

\* History. keys: every <<section, key>> some applied fragment held, whatever
\* the section. last: per section and key, the value of the last fragment that
\* held it in a section `secs` names. overwrote: such a fragment held a key
\* with another value than an earlier fragment.
NoHistory == [sec \in Sections |-> [k \in KeysOf(sec) |-> "none"]]

Note(h, frag, secs) ==
    [sec \in Sections |-> [k \in KeysOf(sec) |->
        IF sec \in secs /\ k \in KeySet(frag[sec]) THEN Get(frag[sec], k) ELSE h[sec][k]]]

Noted(frag, secs) ==
    [keys |-> contributed.keys \cup
                 UNION {{<<sec, k>> : k \in KeySet(frag[sec])} : sec \in Sections},
     last |-> Note(contributed.last, frag, secs),
     overwrote |-> \/ contributed.overwrote
                   \/ \E sec \in secs : \E k \in KeySet(frag[sec]) :
                        /\ contributed.last[sec][k] # "none"
                        /\ contributed.last[sec][k] # Get(frag[sec], k)]

\* What createPackageJSON awaits after the fragment at position `at`.
After(at, opts) ==
    IF at = "base" /\ opts.typescript THEN "ts"
    ELSE IF at \in {"base", "ts"} /\ opts.tailwind THEN "tw"
    ELSE IF at \in {"base", "ts", "tw"} /\ opts.mode = FILE_ROUTER THEN "fr"
    ELSE "addOns"

MergeOptions ==
    [typescript : BOOLEAN, tailwind : BOOLEAN, mode : {CODE_ROUTER, FILE_ROUTER}]

AppIdle ==
    /\ pc = "start"
    /\ cli = [template |-> "javascript", tailwind |-> FALSE, addOns |-> FALSE]
    /\ options = NoOptions
    /\ targetExists = FALSE
    /\ registry = 0
    /\ ip = 0
    /\ floating = [t \in {"public", "logo"} |-> <<>>]
    /\ cur = [k |-> 0, files |-> <<>>]
    /\ dirs = {}
    /\ files = <<>>
    /\ writes = <<>>
    /\ progress = <<>>
    /\ procs = <<>>
    /\ warned = FALSE
    /\ lastOp = NoOp

\* createPackageJSON is called: add-on contributions come with file-router only,
\* where program.action has set typescript and tailwind.
MergeInit ==
    /\ AppIdle
    /\ mpc = "base"
    /\ mopts \in MergeOptions
    /\ additions \in 0..MaxAdditions
    /\ additions > 0 => mopts.mode = FILE_ROUTER /\ mopts.typescript /\ mopts.tailwind
    /\ packageJSON = <<>>
    /\ manifestFile = <<>>
    /\ contributed = [keys |-> {}, last |-> NoHistory, overwrote |-> FALSE]
    /\ preSort = <<>>

\* package.json of the base template is read and parsed; name is set.
ReadBase ==
    /\ mpc = "base"
    /\ \E base \in Fragments :
        /\ packageJSON' = [name |-> "demo", dependencies |-> base.dependencies,
                           devDependencies |-> base.devDependencies,
                           scripts |-> base.scripts]
        /\ contributed' = Noted(base, Sections)
    /\ mpc' = After("base", mopts)
    /\ UNCHANGED <<mopts, additions, manifestFile, preSort>>
    /\ UNCHANGED appVars

\* package.ts.json is read: its devDependencies are merged in.
MergeTypescript ==
    /\ mpc = "ts"
    /\ \E tsPackageJSON \in Fragments :
        /\ packageJSON' = [packageJSON EXCEPT !.devDependencies =
                              Spread(@, tsPackageJSON.devDependencies)]
        /\ contributed' = Noted(tsPackageJSON, {"devDependencies"})
    /\ mpc' = After("ts", mopts)
    /\ UNCHANGED <<mopts, additions, manifestFile, preSort>>
    /\ UNCHANGED appVars

\* package.tw.json is read: its dependencies are merged in.
MergeTailwind ==
    /\ mpc = "tw"
    /\ \E twPackageJSON \in Fragments :
        /\ packageJSON' = [packageJSON EXCEPT !.dependencies =
                              Spread(@, twPackageJSON.dependencies)]
        /\ contributed' = Noted(twPackageJSON, {"dependencies"})
    /\ mpc' = After("tw", mopts)
    /\ UNCHANGED <<mopts, additions, manifestFile, preSort>>
    /\ UNCHANGED appVars

\* package.fr.json is read: its dependencies are merged in.
MergeFileRouter ==
    /\ mpc = "fr"
    /\ \E frPackageJSON \in Fragments :
        /\ packageJSON' = [packageJSON EXCEPT !.dependencies =
                              Spread(@, frPackageJSON.dependencies)]
        /\ contributed' = Noted(frPackageJSON, {"dependencies"})
    /\ mpc' = After("fr", mopts)
    /\ UNCHANGED <<mopts, additions, manifestFile, preSort>>
    /\ UNCHANGED appVars

\* One iteration of `for (const addOn of addOns)`.
MergeAddOn ==
    /\ mpc = "addOns"
    /\ additions > 0
    /\ \E addOn \in Fragments :
        /\ packageJSON' = [packageJSON EXCEPT
                              !.dependencies = Spread(@, addOn.dependencies),
                              !.devDependencies = Spread(@, addOn.devDependencies),
                              !.scripts = Spread(@, addOn.scripts)]
        /\ contributed' = Noted(addOn, Sections)
    /\ additions' = additions - 1
    /\ UNCHANGED <<mpc, mopts, manifestFile, preSort>>
    /\ UNCHANGED appVars

\* After the loop: both dependency sections are sorted and the manifest is
\* written with JSON.stringify, which emits the properties in their order.
SortAndWrite ==
    /\ mpc = "addOns"
    /\ additions = 0
    /\ preSort' = [dependencies |-> KeySeq(packageJSON.dependencies),
                   devDependencies |-> KeySeq(packageJSON.devDependencies)]
    /\ packageJSON' = [packageJSON EXCEPT
                          !.dependencies = sortObject(@),
                          !.devDependencies = sortObject(@)]
    /\ manifestFile' = packageJSON'
    /\ mpc' = "written"
    /\ UNCHANGED <<mopts, additions, contributed>>
    /\ UNCHANGED appVars

MergeNext ==
    \/ ReadBase
    \/ MergeTypescript
    \/ MergeTailwind
    \/ MergeFileRouter
    \/ MergeAddOn
    \/ SortAndWrite

MergeSpec == MergeInit /\ [][MergeNext]_vars

Init == AppInit /\ MergeIdle

Next ==
    \/ ProgramAction
    \/ CheckTarget
    \/ GetAllAddOns
    \/ PickAddOns
    \/ BaseStep
    \/ \E t \in {"public", "logo"} : FloatingCopy(t)
    \/ WritePackageJSON
    \/ AddOnStart
    \/ AddOnFile
    \/ AddOnCommand
    \/ InstallShadcn
    \/ CopyGitignore
    \/ WriteReadme
    \/ InstallDependencies

Spec == Init /\ [][Next]_vars

(***************************************************************************)
(* Properties                                                              *)
(***************************************************************************)
Written == mpc = "written"

StrictlySorted(ks) == \A i \in 1..(Len(ks) - 1) : LexLess(ks[i], ks[i + 1])

ToSet(ks) == {ks[i] : i \in 1..Len(ks)}

\* C1, as stated: in the written manifest every key that any applied fragment
\* held, in any of its three sections, is present, and every key carries the
\* value of the last fragment that contributed it.
C1_EveryFragmentKeyIsMerged ==
    Written =>
        /\ \A sk \in contributed.keys : sk[2] \in KeySet(manifestFile[sk[1]])
        /\ \A sec \in Sections : \A k \in KeySet(manifestFile[sec]) :
                Get(manifestFile[sec], k) = contributed.last[sec][k]

\* C1, amended: the base manifest and the add-ons contribute all three
\* sections, package.ts.json only devDependencies, package.tw.json and
\* package.fr.json only dependencies. Over these contributions the written
\* manifest holds exactly the contributed keys, each with the value of the
\* last fragment in merge order that contributed it.
C1_LastWriterWins ==
    Written =>
        \A sec \in Sections : \A k \in KeysOf(sec) :
            IF contributed.last[sec][k] = "none"
            THEN k \notin KeySet(manifestFile[sec])
            ELSE /\ k \in KeySet(manifestFile[sec])
                 /\ Get(manifestFile[sec], k) = contributed.last[sec][k]

\* C1, witness: a manifest was written after a later fragment gave a key
\* another value than an earlier one, with two add-on contributions merged.
C1_Witness ==
    /\ Written
    /\ contributed.overwrote
    /\ mopts.mode = FILE_ROUTER
    /\ Len(manifestFile.scripts) > 0
    /\ Len(manifestFile.dependencies) > 1

AppendStep ==
    /\ pc = "addOnFile"
    /\ cur' # cur
    /\ endsWith(Head(cur.files), "append")

\* C3, as stated: an append-rule file whose target does not exist is rejected:
\* the run fails and the target is not created.
C3_AppendBeforeExistsRejected ==
    (lastOp.kind = "append" /\ ~lastOp.existed) =>
        (pc = "failed" /\ lastOp.target \notin DOMAIN files)

\* C3, amended: an append-rule file is never rejected. When its target does not
\* exist the target is created with the content of the source file alone; when
\* it exists the content is added at its end; the run goes on.
C3_AppendCreatesOrExtends ==
    [][AppendStep =>
        LET target == replace(Head(cur.files), "append")
            owner  == options.chosenAddOns[Order[cur.k]].id
            before == IF target \in DOMAIN files THEN files[target] ELSE <<>>
        IN  /\ target \in DOMAIN files'
            /\ files'[target] = before \o <<Chunk(owner, "append")>>
            /\ pc' # "failed"]_vars

\* C3, witness: an append-rule file was composed while its target did not
\* exist, and the target now holds that file's content alone.
C3_Witness ==
    /\ lastOp.kind = "append"
    /\ ~lastOp.existed
    /\ lastOp.target \in DOMAIN files
    /\ files[lastOp.target] = <<Chunk(lastOp.owner, "append")>>
    /\ pc # "failed"

Chosen == options.chosenAddOns

Started(i) == progress[i].st # "none"

\* C4: an add-on of phase add-on is not started before every selected add-on of
\* phase setup is done (files composed, command ended); within a phase an add-on
\* is not started before the ones selected ahead of it are done.
C4_PhaseOrdering ==
    \A a \in 1..Len(progress) : \A b \in 1..Len(progress) :
        /\ (Chosen[a].phase = "setup" /\ Chosen[b].phase = "add-on" /\ Started(b))
              => progress[a].st = "done"
        /\ (Chosen[a].phase = Chosen[b].phase /\ a < b /\ Started(b))
              => progress[a].st = "done"

\* C4, witness: an add-on of phase add-on selected ahead of a setup add-on is
\* being composed after the setup add-on composed its files and ran its command.
C4_Witness ==
    \E a \in 1..Len(progress) : \E b \in 1..Len(progress) :
        /\ b < a
        /\ Chosen[a].phase = "setup" /\ Chosen[b].phase = "add-on"
        /\ Chosen[a].command /\ progress[a].n > 0 /\ progress[a].st = "done"
        /\ progress[b].st = "composing" /\ progress[b].n > 0

\* C5: add-ons requested with another template than file-router end the run in
\* the configuration error with createApp never called and nothing created; so
\* a routing mode other than file-router goes with no selected add-on.
C5_AddOnsNeedFileRouter ==
    /\ (cli.addOns /\ cli.template # "file-router" /\ pc # "start") =>
            /\ pc = "configError"
            /\ options = NoOptions
            /\ dirs = {} /\ DOMAIN files = {} /\ DOMAIN writes = {}
            /\ registry = 0 /\ procs = <<>>
    /\ options.mode # FILE_ROUTER => options.chosenAddOns = <<>>
    /\ pc = "configError" => (cli.addOns /\ cli.template # "file-router")

\* C5, witness: a run ended in the configuration error.
C5_Witness == pc = "configError" /\ cli.template = "typescript" /\ ~targetExists

\* C6: a run whose target directory exists ends in Aborted at the target check,
\* before anything was created, loaded, selected or executed; a run is Aborted
\* only there.
C6_AbortOnlyAtTargetCheck ==
    /\ (targetExists /\ pc \notin {"start", "configError", "createApp"}) => pc = "aborted"
    /\ pc = "aborted" =>
            /\ targetExists
            /\ dirs = {} /\ DOMAIN files = {} /\ DOMAIN writes = {}
            /\ registry = 0 /\ options.chosenAddOns = <<>>
            /\ procs = <<>> /\ ip = 0 /\ ~warned
            /\ \A t \in DOMAIN floating : floating[t] = <<>>

\* C6, witness: a run with add-ons requested was aborted at the target check.
C6_Witness == pc = "aborted" /\ options.addOns

InFlight ==
    (IF pc \in Awaiting THEN 1 ELSE 0)
        + Cardinality({t \in DOMAIN floating : floating[t] # <<>>})

PastBasePass ==
    pc \in {"packageJSON", "addOn", "addOnFile", "addOnCommand", "shadcn",
            "gitignore", "readme", "install", "done"}

\* C7, as stated: at most one operation on the target directory is in flight,
\* and every copy of the base pass has completed before the manifest is written,
\* an add-on is composed or the run is Done.
C7_SequentialOperations ==
    /\ InFlight <= 1
    /\ PastBasePass => \A t \in DOMAIN floating : floating[t] = <<>>

Quiet(i) == progress[i].st \in {"none", "done"}

\* C8: while an add-on's command runs all files of its asset tree are composed,
\* and while an add-on is composing or running its command every other selected
\* add-on is either not started or done.
C8_CommandBetweenAddOns ==
    \A i \in 1..Len(progress) :
        /\ progress[i].st = "command" =>
                (pc = "addOnCommand" /\ progress[i].n = progress[i].total)
        /\ progress[i].st = "done" => progress[i].n = progress[i].total
        /\ progress[i].st \in {"composing", "command"} =>
                \A j \in 1..Len(progress) : j # i => Quiet(j)

\* C8, witness: the command of an add-on with a two-file asset tree runs after
\* another add-on is done.
C8_Witness ==
    \E i \in 1..Len(progress) : \E j \in 1..Len(progress) :
        /\ i # j
        /\ progress[i].st = "command" /\ progress[i].total = 2
        /\ progress[j].st = "done" /\ progress[j].n > 0 /\ Chosen[j].command

\* C9, as stated: a path is written once; every later write to it is the append
\* of an append-rule file.
C9_SingleOwner ==
    \A p \in DOMAIN writes :
        \A i \in 2..Len(writes[p]) : writes[p][i].kind = "append"

LastReplace(h) ==
    LET r == {i \in 1..Len(h) : h[i].kind # "append"}
    IN  IF r = {} THEN 1 ELSE CHOOSE i \in r : \A j \in r : j <= i

\* C9, amended: a path may be written by several owners. A later write that is
\* not an append replaces what was there, and the content of every path is that
\* of the last such write to it followed by the appends made after it.
C9_LastWriterOwns ==
    \A p \in DOMAIN writes :
        /\ p \in DOMAIN files
        /\ files[p] = SubSeq(writes[p], LastReplace(writes[p]), Len(writes[p]))

\* C9, witness: the run is Done, README.md was written by an add-on and then
\* replaced by post-processing, and a file of one add-on was replaced by another.
C9_Witness ==
    /\ pc = "done"
    /\ \E p \in DOMAIN writes :
        /\ Len(writes[p]) = 2
        /\ writes[p][1].owner \notin {"base", "post", "manifest"}
        /\ writes[p][2].owner = "post"
        /\ files[p] = <<writes[p][2]>>
    /\ \E p \in DOMAIN writes :
        /\ Len(writes[p]) = 2
        /\ writes[p][1].owner \notin {"base", "post", "manifest"}
        /\ writes[p][2].owner \notin {"base", "post", "manifest"}
        /\ writes[p][2].kind = "copy"

Failures == {i \in 1..Len(procs) : ~procs[i].ok}

PostWrites ==
    {p \in DOMAIN writes : \E i \in 1..Len(writes[p]) : writes[p][i].owner = "post"}

\* Position in the processing order of the add-on with index i.
PositionOf(i) == CHOOSE k \in 1..Len(Order) : Order[k] = i

\* C10: a failing external process is the last one of the run, which is then
\* failed and never Done, with no warning surfaced; after a failing post-command
\* no later add-on is started, no other process was run, and .gitignore and
\* README.md are not written by post-processing.
C10_FailingCommandIsFatal ==
    /\ Failures # {} =>
            /\ Failures = {Len(procs)}
            /\ pc = "failed"
            /\ ~warned
    /\ \A i \in Failures : procs[i].cmd = "command" =>
            /\ PostWrites = {}
            /\ \A j \in 1..Len(procs) : procs[j].cmd = "command"
            /\ progress[procs[i].addOn].st = "failed"
            /\ \A k \in 1..Len(Order) :
                    k > PositionOf(procs[i].addOn) => progress[Order[k]].st = "none"
    /\ pc = "done" => (Failures = {} /\ procs[Len(procs)].cmd = "install")

\* C10, witness: the post-command of the first of two add-ons failed, and an
\* add-on of the selection declares a warning.
C10_Witness ==
    /\ pc = "failed"
    /\ Len(procs) = 1 /\ procs[1].cmd = "command" /\ ~procs[1].ok
    /\ Len(Order) = 2 /\ Order[1] = procs[1].addOn
    /\ progress[Order[2]].st = "none"
    /\ Warnings(options) # {}

====
